---- MODULE Spec2Model ----
(***************************************************************************)
(* The chicken-coop controller of pkg/coop/coop.go.                        *)
(*                                                                         *)
(* The Coop struct is shared, without any lock, by the goroutines that     *)
(* call its methods: the HTTP handlers (Open, Close, Update) and the       *)
(* goroutines that watch() starts, one per tick (go coop.Check()).  Each   *)
(* action below is one access to the shared fields (one read or one write  *)
(* of coop.status / coop.opts) or one event of the door, so that every     *)
(* interleaving the Go scheduler can produce is a behaviour of Spec.       *)
(***************************************************************************)
EXTENDS Integers, FiniteSets, Sequences, TLC

\* ------------------------------------------------------------------ bounds

\* Check goroutines that can be alive at once (watch() itself sets no limit).
MaxChecks == 2

\* The goroutine of the request-handling layer that calls Open/Close/Update.
Callers == {0}
\* The goroutines that watch() starts.
Checks == 1..MaxChecks
Procs == Callers \cup Checks

\* Minutes of the day at which the clock is sampled: 06:55, 07:05, 20:01.
Instants == {415, 425, 1201}
\* (opening, closing) time-based conditions, minutes of the day:
\* 07:00/20:00 and 07:05/20:01.
CondPairs == {<<420, 1200>>, <<425, 1201>>}
\* The causes the door can fail with.
DoorErrs == {"motor failure"}
\* The *door.Door handed to New as its third argument.
NewDoorArg == "door handed to New"
\* coop.opts.notifiers, in the order notify() ranges over them.
Notifiers == <<"notifier1", "notifier2">>

\* ------------------------------------------------------------------ values

Unknown == "Unknown"
Opening == "Opening"
Opened == "Opened"
Closing == "Closing"
Closed == "Closed"
Statuses == {Unknown, Opening, Opened, Closing, Closed}

\* An error value: which variable or call made it, its text, the wrapped cause.
Nil == [id |-> "nil", msg |-> "", cause |-> ""]
Errorf(m, c) == [id |-> "fmt.Errorf", msg |-> m, cause |-> c]
ErrAutomaticModeEnabled ==
    [id |-> "ErrAutomaticModeEnabled",
     msg |-> "cannot close the coop because automatic mode is enabled", cause |-> ""]
ErrCoopAlreadyOpening ==
    [id |-> "ErrCoopAlreadyOpening", msg |-> "coop is already opening", cause |-> ""]
ErrCoopAlreadyClosing ==
    [id |-> "ErrCoopAlreadyClosing", msg |-> "coop is already closing", cause |-> ""]

\* The status literals a protocols.CoopUpdateRequestService can carry.
StatusLiterals == {"opened", "closed", "invalid"}
\* A request of which Update has read nothing yet.
NoInput == [Status |-> "", IsAutomatic |-> FALSE, Conds |-> <<0, 0>>]

VARIABLES
    status,            \* coop.status
    isAutomatic,       \* coop.opts.isAutomatic
    openingCondition,  \* coop.opts.openingCondition (its time of day)
    closingCondition,  \* coop.opts.closingCondition (its time of day)
    door,              \* coop.door
    now,               \* the wall clock, minutes of the day
    pc,                \* per goroutine: where it is in its method
    input,             \* per caller: the request of its Update, as far as read
    doorRes,           \* per goroutine: what its door call returned (nil is "")
    err,               \* per caller: the error its last call returned
    notified           \* how many of the notifiers notify() has delivered to

vars == <<status, isAutomatic, openingCondition, closingCondition, door, now,
          pc, input, doorRes, err, notified>>

coopVars == <<status, isAutomatic, openingCondition, closingCondition, door>>
confVars == <<isAutomatic, openingCondition, closingCondition, door>>

\* ------------------------------------------------------------------ New

\* New: the zero Coop with the options applied; c.door is never assigned.
Init ==
    /\ status = Unknown
    /\ isAutomatic \in BOOLEAN
    /\ \E cp \in CondPairs : openingCondition = cp[1] /\ closingCondition = cp[2]
    /\ door = "nil"
    /\ now \in Instants
    /\ pc = [p \in Procs |-> "idle"]
    /\ input = [p \in Callers |-> NoInput]
    /\ doorRes = [p \in Procs |-> ""]
    /\ err = [p \in Callers |-> Nil]
    /\ notified = 0

\* A goroutine enters method m.
Enter(p, m) ==
    /\ pc[p] = "idle"
    /\ pc' = [pc EXCEPT ![p] = m]
    /\ err' = [q \in Callers |-> IF q = p THEN Nil ELSE err[q]]
    /\ UNCHANGED notified

\* A goroutine returns e from open, close or its method.  A caller is handed e;
\* Check only logs it, and its goroutine ends.
Return(p, e) ==
    /\ pc' = [pc EXCEPT ![p] = "idle"]
    /\ err' = [q \in Callers |-> IF q = p THEN e ELSE err[q]]
    /\ UNCHANGED notified

Goto(p, l) ==
    /\ pc' = [pc EXCEPT ![p] = l]
    /\ UNCHANGED <<err, notified>>

\* ------------------------------------------------------------------ Open, open

\* Open is called by a request handler.
CallOpen(p) ==
    /\ Enter(p, "Open")
    /\ UNCHANGED <<coopVars, now, input, doorRes>>

\* Open without its automatic-mode check.
OpenResult_Unchecked(auto) == Nil

\* Open: the automatic-mode check.
OpenResult(auto) ==
    IF auto THEN ErrAutomaticModeEnabled ELSE Nil

OpenAuto(p) ==
    /\ pc[p] = "Open"
    /\ IF OpenResult(isAutomatic) # Nil
          THEN Return(p, OpenResult(isAutomatic))
          ELSE Goto(p, "open")
    /\ UNCHANGED <<coopVars, now, input, doorRes>>

\* open with the errors of the Opening and Closing cases exchanged.
openReject_Swapped(s) ==
    CASE s = Unknown -> Errorf("cannot open the coop because the status unknown", "")
      [] s = Opened -> Errorf("coop is already opened", "")
      [] s = Opening -> ErrCoopAlreadyClosing
      [] s = Closing -> ErrCoopAlreadyOpening
      [] OTHER -> Nil

\* open: the switch on the incompatible statuses; Nil when no case matches.
openReject(s) ==
    CASE s = Unknown -> Errorf("cannot open the coop because the status unknown", "")
      [] s = Opened -> Errorf("coop is already opened", "")
      [] s = Opening -> ErrCoopAlreadyOpening
      [] s = Closing -> ErrCoopAlreadyClosing
      [] OTHER -> Nil

openSwitch(p) ==
    /\ pc[p] = "open"
    /\ IF openReject(status) # Nil
          THEN Return(p, openReject(status))
          ELSE Goto(p, "open_set")
    /\ UNCHANGED <<coopVars, now, input, doorRes>>

\* open: coop.status = Opening, then coop.door.Open() is invoked and blocks.
openDoor(p) ==
    /\ pc[p] = "open_set"
    /\ status' = Opening
    /\ Goto(p, "open_wait")
    /\ UNCHANGED <<confVars, now, input, doorRes>>

\* The door's Open() returns nil or an error.
openDoorReturns(p) ==
    /\ pc[p] = "open_wait"
    /\ \E r \in {""} \cup DoorErrs : doorRes' = [doorRes EXCEPT ![p] = r]
    /\ Goto(p, "open_settle")
    /\ UNCHANGED <<coopVars, now, input>>

\* open never settling the status after the door has returned.
openOutcome_StaysOpening(r) == <<Opening, Nil>>

\* open ignoring the error of the door.
openOutcome_IgnoresError(r) == <<Opened, Nil>>

\* open: the status written and the error returned once the door has returned r
\* (nil is "").
openOutcome(r) ==
    IF r # ""
       THEN <<Unknown, Errorf("error while opening the door: %s", r)>>
       ELSE <<Opened, Nil>>

\* open: the door has returned; the status is settled and the error returned.
openSettle(p) ==
    /\ pc[p] = "open_settle"
    /\ status' = openOutcome(doorRes[p])[1]
    /\ Return(p, openOutcome(doorRes[p])[2])
    /\ doorRes' = [doorRes EXCEPT ![p] = ""]
    /\ UNCHANGED <<confVars, now, input>>

\* ------------------------------------------------------------------ Close, close

CallClose(p) ==
    /\ Enter(p, "Close")
    /\ UNCHANGED <<coopVars, now, input, doorRes>>

\* Close: the automatic-mode check.
CloseResult(auto) ==
    IF auto THEN Errorf("cannot close the coop because automatic mode is set", "") ELSE Nil

CloseAuto(p) ==
    /\ pc[p] = "Close"
    /\ IF CloseResult(isAutomatic) # Nil
          THEN Return(p, CloseResult(isAutomatic))
          ELSE Goto(p, "close")
    /\ UNCHANGED <<coopVars, now, input, doorRes>>

\* close without the Unknown case of its switch.
closeReject_NoUnknown(s) ==
    CASE s = Closed -> Errorf("coop is already closed", "")
      [] s = Opening -> Errorf("coop is already opening", "")
      [] s = Closing -> Errorf("coop is already closing", "")
      [] OTHER -> Nil

\* close: the switch on the incompatible statuses; Nil when no case matches.
closeReject(s) ==
    CASE s = Unknown -> Errorf("cannot open the coop because the status unknown", "")
      [] s = Closed -> Errorf("coop is already closed", "")
      [] s = Opening -> Errorf("coop is already opening", "")
      [] s = Closing -> Errorf("coop is already closing", "")
      [] OTHER -> Nil

closeSwitch(p) ==
    /\ pc[p] = "close"
    /\ IF closeReject(status) # Nil
          THEN Return(p, closeReject(status))
          ELSE Goto(p, "close_set")
    /\ UNCHANGED <<coopVars, now, input, doorRes>>

\* close: coop.status = Closing, then coop.door.Close() is invoked and blocks.
closeDoor(p) ==
    /\ pc[p] = "close_set"
    /\ status' = Closing
    /\ Goto(p, "close_wait")
    /\ UNCHANGED <<confVars, now, input, doorRes>>

\* The door's Close() returns nil or an error.
closeDoorReturns(p) ==
    /\ pc[p] = "close_wait"
    /\ \E r \in {""} \cup DoorErrs : doorRes' = [doorRes EXCEPT ![p] = r]
    /\ Goto(p, "close_settle")
    /\ UNCHANGED <<coopVars, now, input>>

\* close: the status written and the error returned once the door has returned r
\* (nil is "").
closeOutcome(r) ==
    IF r # ""
       THEN <<Unknown, Errorf("error while opening the door: %s", r)>>
       ELSE <<Closed, Nil>>

\* close: the door has returned; the status is settled and the error returned.
closeSettle(p) ==
    /\ pc[p] = "close_settle"
    /\ status' = closeOutcome(doorRes[p])[1]
    /\ Return(p, closeOutcome(doorRes[p])[2])
    /\ doorRes' = [doorRes EXCEPT ![p] = ""]
    /\ UNCHANGED <<confVars, now, input>>

\* ------------------------------------------------------------------ watch, Check

\* watch leaving its loop once an actuation has failed.
Tick_StopsAfterFailure(p) ==
    /\ status # Unknown
    /\ Enter(p, "Check")
    /\ UNCHANGED <<coopVars, now, input, doorRes>>

\* watch: a tick of the ticker starts a goroutine running Check.
Tick(p) ==
    /\ Enter(p, "Check")
    /\ UNCHANGED <<coopVars, now, input, doorRes>>

\* Check: the automatic-mode check.
CheckAuto(p) ==
    /\ pc[p] = "Check"
    /\ IF ~isAutomatic THEN Return(p, Nil) ELSE Goto(p, "Check_switch")
    /\ UNCHANGED <<coopVars, now, input, doorRes>>

\* Check treating an Unknown status as Closed.
CheckBranch_UnknownAsClosed(s) ==
    CASE s = Unknown -> "Check_Closed"
      [] s = Opening -> "idle"
      [] s = Closing -> "idle"
      [] s = Closed -> "Check_Closed"
      [] s = Opened -> "Check_Opened"
      [] OTHER -> "idle"

\* Check: the case its switch on the status takes.
CheckBranch(s) ==
    CASE s = Unknown -> "idle"
      [] s = Opening -> "idle"
      [] s = Closing -> "idle"
      [] s = Closed -> "Check_Closed"
      [] s = Opened -> "Check_Opened"
      [] OTHER -> "idle"

CheckSwitch(p) ==
    /\ pc[p] = "Check_switch"
    /\ IF CheckBranch(status) = "idle" THEN Return(p, Nil) ELSE Goto(p, CheckBranch(status))
    /\ UNCHANGED <<coopVars, now, input, doorRes>>

\* coop.shouldBeOpened(t) with opening time o and closing time c.
shouldBeOpened(t, o, c) == o <= t /\ t < c

\* coop.shouldBeClosed(t) with closing time c.
shouldBeClosed(t, c) == t >= c

\* Check, case Closed, opening whatever shouldBeOpened says.
CheckClosedNext_Always(should) == "open"

\* Check, case Closed: open() is called when shouldBeOpened(time.Now()).
CheckClosedNext(should) == IF should THEN "open" ELSE "idle"

CheckClosed(p) ==
    /\ pc[p] = "Check_Closed"
    /\ LET l == CheckClosedNext(shouldBeOpened(now, openingCondition, closingCondition))
       IN IF l = "idle" THEN Return(p, Nil) ELSE Goto(p, l)
    /\ UNCHANGED <<coopVars, now, input, doorRes>>

\* Check, case Opened, closing when shouldBeClosed says no.
CheckOpenedNext_Negated(should) == IF should THEN "idle" ELSE "close"

\* Check, case Opened, closing whatever shouldBeClosed says.
CheckOpenedNext_Always(should) == "close"

\* Check, case Opened: close() is called when shouldBeClosed(time.Now()).
CheckOpenedNext(should) == IF should THEN "close" ELSE "idle"

CheckOpened(p) ==
    /\ pc[p] = "Check_Opened"
    /\ LET l == CheckOpenedNext(shouldBeClosed(now, closingCondition))
       IN IF l = "idle" THEN Return(p, Nil) ELSE Goto(p, l)
    /\ UNCHANGED <<coopVars, now, input, doorRes>>

\* ------------------------------------------------------------------ Update

\* Update is called by a request handler.  Only Update sees its request, so each
\* field of it is drawn where Update reads it, which gives the same behaviours as
\* drawing the whole request here.
CallUpdate(p) ==
    /\ Enter(p, "Update")
    /\ UNCHANGED <<coopVars, now, input, doorRes>>

\* Update taking any literal it does not know for "closed".
UpdateStatusOf_DefaultClosed(lit) ==
    CASE lit = "opened" -> Opened
      [] OTHER -> Closed

\* Update: the switch on input.Status; the status to write, "" for the default case.
UpdateStatusOf(lit) ==
    CASE lit = "opened" -> Opened
      [] lit = "closed" -> Closed
      [] OTHER -> ""

UpdateStatus(p) ==
    /\ pc[p] = "Update"
    /\ \E lit \in StatusLiterals :
       IF UpdateStatusOf(lit) = ""
          THEN /\ Return(p, Errorf("status is incorrect", ""))
               /\ UNCHANGED <<status, input>>
          ELSE /\ status' = UpdateStatusOf(lit)
               /\ input' = [input EXCEPT ![p].Status = lit]
               /\ Goto(p, "Update_auto")
    /\ UNCHANGED <<confVars, now, doorRes>>

UpdateAuto(p) ==
    /\ pc[p] = "Update_auto"
    /\ \E b \in BOOLEAN : isAutomatic' = b /\ input' = [input EXCEPT ![p].IsAutomatic = b]
    /\ Goto(p, "Update_opening")
    /\ UNCHANGED <<status, openingCondition, closingCondition, door, now, doorRes>>

UpdateOpening(p) ==
    /\ pc[p] = "Update_opening"
    /\ \E cp \in CondPairs : openingCondition' = cp[1] /\ input' = [input EXCEPT ![p].Conds = cp]
    /\ Goto(p, "Update_closing")
    /\ UNCHANGED <<status, isAutomatic, closingCondition, door, now, doorRes>>

UpdateClosing(p) ==
    /\ pc[p] = "Update_closing"
    /\ closingCondition' = input[p].Conds[2]
    /\ Return(p, Nil)
    /\ input' = [input EXCEPT ![p] = NoInput]
    /\ UNCHANGED <<status, isAutomatic, openingCondition, door, now, doorRes>>

\* ------------------------------------------------------------------ the clock

\* Time passes.
Advance ==
    /\ \E t \in Instants : t > now /\ now' = t
    /\ UNCHANGED <<coopVars, pc, input, doorRes, err, notified>>

\* ------------------------------------------------------------------ notify

\* notify, the goroutine New starts after watch: one Notify("The status of the coop
\* is unknown.") of its loop returns.  It touches no field of the Coop.
notify ==
    /\ notified < Len(Notifiers)
    /\ notified' = notified + 1
    /\ UNCHANGED <<coopVars, now, pc, input, doorRes, err>>

\* ------------------------------------------------------------------ Spec

Next ==
    \/ \E p \in Callers : CallOpen(p) \/ CallClose(p) \/ CallUpdate(p)
    \/ \E p \in Callers : OpenAuto(p) \/ CloseAuto(p)
    \/ \E p \in Callers : UpdateStatus(p) \/ UpdateAuto(p) \/ UpdateOpening(p) \/ UpdateClosing(p)
    \/ \E p \in Checks : Tick(p) \/ CheckAuto(p) \/ CheckSwitch(p)
    \/ \E p \in Checks : CheckClosed(p) \/ CheckOpened(p)
    \/ \E p \in Procs : openSwitch(p) \/ openDoor(p) \/ openDoorReturns(p) \/ openSettle(p)
    \/ \E p \in Procs : closeSwitch(p) \/ closeDoor(p) \/ closeDoorReturns(p) \/ closeSettle(p)
    \/ Advance

\* The goroutines that touch the Coop.  notify() reads and writes none of the
\* variables these actions use, so leaving its steps out changes nothing they do;
\* SpecStartup has them.
Spec == Init /\ [][Next]_vars

\* The whole program from the return of New: the notify goroutine as well.
NextStartup ==
    \/ Next
    \/ notify

SpecStartup == Init /\ [][NextStartup]_vars

\* The scenario of a manual Open and one tick's Check issued together on a closed
\* coop in automatic mode (the state Update("closed", true, ...) leaves), and
\* nothing else running.
InitOpenCheck ==
    /\ status = Closed
    /\ isAutomatic = TRUE
    /\ \E cp \in CondPairs : openingCondition = cp[1] /\ closingCondition = cp[2]
    /\ door = "nil"
    /\ now \in Instants
    /\ pc = [p \in Procs |-> IF p = 0 THEN "Open" ELSE IF p = 1 THEN "Check" ELSE "idle"]
    /\ input = [p \in Callers |-> NoInput]
    /\ doorRes = [p \in Procs |-> ""]
    /\ err = [p \in Callers |-> Nil]
    /\ notified = 0

NextOpenCheck ==
    \/ OpenAuto(0)
    \/ CheckAuto(1) \/ CheckSwitch(1) \/ CheckClosed(1)
    \/ openSwitch(1) \/ openDoor(1) \/ openDoorReturns(1) \/ openSettle(1)
    \/ Advance

SpecOpenCheck == InitOpenCheck /\ [][NextOpenCheck]_vars

\* The scheduler alone: automatic mode is on, the operator has attested the status
\* with a completed Update, and from then on only watch()'s ticks run.
InitScheduler ==
    /\ status \in {Opened, Closed}
    /\ isAutomatic = TRUE
    /\ \E cp \in CondPairs : openingCondition = cp[1] /\ closingCondition = cp[2]
    /\ door = "nil"
    /\ now \in Instants
    /\ pc = [p \in Procs |-> "idle"]
    /\ input = [p \in Callers |-> NoInput]
    /\ doorRes = [p \in Procs |-> ""]
    /\ err = [p \in Callers |-> Nil]
    /\ notified = 0

NextScheduler ==
    \/ \E p \in Checks : Tick(p) \/ CheckAuto(p) \/ CheckSwitch(p)
    \/ \E p \in Checks : CheckClosed(p) \/ CheckOpened(p)
    \/ \E p \in Checks : openSwitch(p) \/ openDoor(p) \/ openDoorReturns(p) \/ openSettle(p)
    \/ \E p \in Checks : closeSwitch(p) \/ closeDoor(p) \/ closeDoorReturns(p) \/ closeSettle(p)
    \/ Advance

SpecScheduler == InitScheduler /\ [][NextScheduler]_vars

\* Ticks at one instant, each Check run to completion before the next starts: a
\* settled status, nobody else running and no time passing.  Goroutine 1 runs the
\* first Check, goroutine 2 the later ones.
InitTwoChecks ==
    /\ status \in {Opened, Closed}
    /\ isAutomatic \in BOOLEAN
    /\ \E cp \in CondPairs : openingCondition = cp[1] /\ closingCondition = cp[2]
    /\ door = "nil"
    /\ now \in Instants
    /\ pc = [p \in Procs |-> IF p = 1 THEN "Check" ELSE "idle"]
    /\ input = [p \in Callers |-> NoInput]
    /\ doorRes = [p \in Procs |-> ""]
    /\ err = [p \in Callers |-> Nil]
    /\ notified = 0

NextTwoChecks ==
    \/ \E p \in {1, 2} : CheckAuto(p) \/ CheckSwitch(p) \/ CheckClosed(p) \/ CheckOpened(p)
    \/ \E p \in {1, 2} : openSwitch(p) \/ openDoor(p) \/ openDoorReturns(p) \/ openSettle(p)
    \/ \E p \in {1, 2} : closeSwitch(p) \/ closeDoor(p) \/ closeDoorReturns(p) \/ closeSettle(p)
    \/ pc[1] = "idle" /\ Tick(2)

SpecTwoChecks == InitTwoChecks /\ [][NextTwoChecks]_vars

\* A step of the Check goroutine p after its start.
CheckStep(p) ==
    \/ CheckAuto(p) \/ CheckSwitch(p) \/ CheckClosed(p) \/ CheckOpened(p)
    \/ openSwitch(p) \/ openDoor(p) \/ openSettle(p)
    \/ closeSwitch(p) \/ closeDoor(p) \/ closeSettle(p)

\* The ticker keeps firing, the Go scheduler runs every runnable goroutine, and a
\* call of the door returns.  Time is not forced to pass.
FairScheduler ==
    \A p \in Checks :
        /\ WF_vars(Tick(p))
        /\ WF_vars(CheckStep(p))
        /\ WF_vars(openDoorReturns(p) \/ closeDoorReturns(p))

SpecSchedulerFair == SpecScheduler /\ FairScheduler

\* ------------------------------------------------------------------ properties

\* The goroutines whose door call has been issued and has not returned.
InFlight == {p \in Procs : pc[p] \in {"open_wait", "close_wait"}}

\* The step is Update's write of coop.status.
UpdateWrites == \E p \in Callers : pc[p] = "Update" /\ pc'[p] = "Update_auto"

\* The status changes of the two paths.
LegalChanges ==
    {<<Closed, Opening>>, <<Opening, Opened>>, <<Opening, Unknown>>,
     <<Opened, Closing>>, <<Closing, Closed>>, <<Closing, Unknown>>}

\* The text of each error kind.
StatusUnknownMsg == "cannot open the coop because the status unknown"
AlreadyMsg(s) ==
    CASE s = Opened -> "coop is already opened"
      [] s = Closed -> "coop is already closed"
      [] s = Opening -> "coop is already opening"
      [] s = Closing -> "coop is already closing"
ActuationFailedMsg == "error while opening the door: %s"

\* C1: the status is always one of the five values, and every change of it made
\* by Open, Close or Check is a step of Closed->Opening->(Opened|Unknown) or
\* Opened->Closing->(Closed|Unknown).
C1_OnlyLegalChanges ==
    [][/\ status' \in Statuses
       /\ (status' # status /\ ~UpdateWrites) => <<status, status'>> \in LegalChanges]_vars

\* C2 (as stated): with the status Closed and automatic mode on, the manual Open
\* issued together with a Check ends with an "already" error.
C2_OpenSeesAlready ==
    pc[0] = "idle" => err[0].msg \in {AlreadyMsg(Opening), AlreadyMsg(Opened)}

\* C2 (amended): with the status Closed and automatic mode on, a manual Open issued
\* together with a Check never enters the open transition and returns
\* ErrAutomaticModeEnabled; the Check calls open() exactly when now is in the
\* opening window, that open() is not rejected, and so the door's Open() is
\* invoked once in the window, never otherwise, and never twice.
C2_OneOpenByCheck ==
    /\ [](/\ pc[0] \in {"Open", "idle"}
          /\ pc[0] = "idle" => err[0] = ErrAutomaticModeEnabled
          /\ Cardinality(InFlight) <= 1)
    /\ [][/\ (pc[1] = "Check_Closed" /\ pc'[1] # "Check_Closed")
             => (pc'[1] = "open" <=> (openingCondition <= now /\ now < closingCondition))
          /\ (pc[1] = "open" /\ pc'[1] # "open") => pc'[1] = "open_set"
          /\ (pc[1] = "open_set" /\ pc'[1] # "open_set") => pc'[1] = "open_wait"]_vars

C2_Witness ==
    /\ pc[0] = "idle" /\ err[0] = ErrAutomaticModeEnabled
    /\ pc[1] = "open_wait" /\ status = Opening

\* C3: at most one door command (Open or Close) is in flight at any time.
C3_OneCommandInFlight == Cardinality(InFlight) <= 1

\* C4: at most one Check execution is in flight at any time.
C4_OneCheckInFlight == Cardinality({p \in Checks : pc[p] # "idle"}) <= 1

\* C5: a manual Open or Close that finds automatic mode on returns the
\* AutomaticModeEnabled error, the same for both, and leaves the status alone.
C5_AutomaticModeEnabled ==
    [][\A p \in Callers :
         (pc[p] \in {"Open", "Close"} /\ pc'[p] # pc[p] /\ isAutomatic)
         => /\ pc'[p] = "idle"
            /\ status' = status
            /\ \/ err'[p].id = ErrAutomaticModeEnabled.id
               \/ err'[p].msg = ErrAutomaticModeEnabled.msg]_vars

\* C6: open() from Opened, Opening or Closing, and close() from Closed, Opening
\* or Closing, return the "already" error of the current status, issue no door
\* command and leave the status unchanged.
C6_AlreadyErrors ==
    [][\A p \in Procs :
         (\/ pc[p] = "open" /\ pc'[p] # "open" /\ status \in {Opened, Opening, Closing}
          \/ pc[p] = "close" /\ pc'[p] # "close" /\ status \in {Closed, Opening, Closing})
         => /\ pc'[p] = "idle"
            /\ status' = status
            /\ p \in Callers => err'[p].msg = AlreadyMsg(status)]_vars

C6_Witness ==
    /\ pc[0] = "idle" /\ err[0].msg = AlreadyMsg(Opening) /\ status = Opening
    /\ \E p \in Checks : pc[p] = "open_wait"

C8_ActuationOutcome ==
    [][\A p \in Procs :
         /\ (pc[p] = "open" /\ pc'[p] = "open_set") => status = Closed
         /\ (pc[p] = "close" /\ pc'[p] = "close_set") => status = Opened
         /\ (pc[p] # "open_wait" /\ pc'[p] = "open_wait") => status' = Opening
         /\ (pc[p] # "close_wait" /\ pc'[p] = "close_wait") => status' = Closing
         /\ (pc[p] \in {"open_settle", "close_settle"} /\ pc'[p] # pc[p])
            => IF doorRes[p] \in DoorErrs
                  THEN /\ status' = Unknown
                       /\ p \in Callers => /\ err'[p].msg = ActuationFailedMsg
                                           /\ err'[p].cause = doorRes[p]
                  ELSE /\ status' = IF pc[p] = "open_settle" THEN Opened ELSE Closed
                       /\ p \in Callers => err'[p] = Nil]_vars

C8_Witness ==
    /\ pc[0] = "idle" /\ err[0].msg = ActuationFailedMsg /\ err[0].cause \in DoorErrs
    /\ status = Unknown

\* C9: the status leaves Unknown, and a door command is issued while it is
\* Unknown, only by Update's write.
C9_OnlyUpdateLeavesUnknown ==
    [][(status = Unknown /\ status' # Unknown) => UpdateWrites]_vars

\* C10: a Check that found automatic mode on and the status Closed calls open()
\* if and only if openingTime <= now < closingTime, and otherwise returns without
\* a door command or a write of the status; only such a Check reaches this
\* decision.  The open() it calls, finding the status still Closed, issues the
\* door's Open() once and writes Opened when the door returns no error.
C10_OpensInWindow ==
    [][\A p \in Checks :
         /\ (pc[p] = "Check" /\ pc'[p] = "Check_switch") => isAutomatic
         /\ (pc[p] = "Check_switch" /\ pc'[p] # "Check_switch" /\ status = Closed)
            => pc'[p] = "Check_Closed"
         /\ (pc[p] # "Check_Closed" /\ pc'[p] = "Check_Closed") => status = Closed
         /\ (pc[p] # "open" /\ pc'[p] = "open") => pc[p] = "Check_Closed"
         /\ (pc[p] = "Check_Closed" /\ pc'[p] # "Check_Closed")
            => IF openingCondition <= now /\ now < closingCondition
                  THEN pc'[p] = "open" /\ status' = status
                  ELSE pc'[p] = "idle" /\ status' = status
         /\ (pc[p] = "open" /\ pc'[p] # "open" /\ status = Closed) => pc'[p] = "open_set"
         /\ (pc[p] = "open_set" /\ pc'[p] # "open_set")
            => pc'[p] = "open_wait" /\ status' = Opening
         /\ (pc[p] = "open_wait" /\ pc'[p] # "open_wait") => pc'[p] = "open_settle"
         /\ (pc[p] = "open_settle" /\ pc'[p] # "open_settle" /\ doorRes[p] = "")
            => pc'[p] = "idle" /\ status' = Opened]_vars

\* Scenario A: opening 07:00, closing 20:00, a Check at 07:05 has the door opening.
C10_Witness ==
    /\ openingCondition = 420 /\ closingCondition = 1200 /\ now = 425
    /\ isAutomatic /\ status = Opening
    /\ \E p \in Checks : pc[p] = "open_wait"

\* C11: a Check that found automatic mode on and the status Opened calls close()
\* if and only if now >= closingTime, and at any earlier time (also before the
\* opening time) returns without a door command or a write of the status; only
\* such a Check reaches this decision.  The close() it calls, finding the status
\* still Opened, issues the door's Close() once and writes Closed when the door
\* returns no error.
C11_ClosesAfterClosingTime ==
    [][\A p \in Checks :
         /\ (pc[p] = "Check" /\ pc'[p] = "Check_switch") => isAutomatic
         /\ (pc[p] = "Check_switch" /\ pc'[p] # "Check_switch" /\ status = Opened)
            => pc'[p] = "Check_Opened"
         /\ (pc[p] # "Check_Opened" /\ pc'[p] = "Check_Opened") => status = Opened
         /\ (pc[p] # "close" /\ pc'[p] = "close") => pc[p] = "Check_Opened"
         /\ (pc[p] = "Check_Opened" /\ pc'[p] # "Check_Opened")
            => IF now >= closingCondition
                  THEN pc'[p] = "close" /\ status' = status
                  ELSE pc'[p] = "idle" /\ status' = status
         /\ (pc[p] = "close" /\ pc'[p] # "close" /\ status = Opened) => pc'[p] = "close_set"
         /\ (pc[p] = "close_set" /\ pc'[p] # "close_set")
            => pc'[p] = "close_wait" /\ status' = Closing
         /\ (pc[p] = "close_wait" /\ pc'[p] # "close_wait") => pc'[p] = "close_settle"
         /\ (pc[p] = "close_settle" /\ pc'[p] # "close_settle" /\ doorRes[p] = "")
            => pc'[p] = "idle" /\ status' = Closed]_vars

\* Scenario C: closing 20:00, a Check at 20:01 has the door closing.
C11_Witness ==
    /\ closingCondition = 1200 /\ now = 1201
    /\ isAutomatic /\ status = Closing
    /\ \E p \in Checks : pc[p] = "close_wait"

\* C12: a Check that reads automatic mode off (whatever the status), or reads
\* automatic mode on and then the status Unknown, Opening or Closing, returns at
\* once: it issues no door command and leaves the status, the automatic flag and
\* both conditions as they are.  No step of Check before open() or close() writes
\* any of them.
C12_CheckNoOp ==
    [][\A p \in Checks :
         /\ (pc[p] = "Check" /\ pc'[p] # "Check" /\ ~isAutomatic)
            => pc'[p] = "idle" /\ coopVars' = coopVars
         /\ (pc[p] = "Check_switch" /\ pc'[p] # "Check_switch"
               /\ status \in {Unknown, Opening, Closing})
            => pc'[p] = "idle" /\ coopVars' = coopVars
         /\ (pc[p] \in {"Check", "Check_switch", "Check_Closed", "Check_Opened"}
               /\ pc'[p] # pc[p])
            => /\ coopVars' = coopVars
               /\ pc'[p] \notin {"open_set", "open_wait", "close_set", "close_wait"}]_vars

\* A Check has read automatic mode on and stands at its switch while the status
\* is Opening, the door call of another goroutine being in flight.
C12_Witness ==
    \E p, q \in Checks :
        /\ pc[p] = "Check_switch" /\ pc[q] = "open_wait"
        /\ isAutomatic /\ status = Opening

\* The text of the InvalidStatus error.
InvalidStatusMsg == "status is incorrect"

\* C13: Update with a status literal other than "opened" or "closed" returns the
\* InvalidStatus error and writes nothing: the status, the automatic flag and both
\* conditions keep their values.  Update goes on to its writes only with one of
\* the two literals, whose status it has then written.
C13_InvalidStatus ==
    [][\A p \in Callers :
         (pc[p] = "Update" /\ pc'[p] # "Update")
         => \/ /\ pc'[p] = "idle"
               /\ err'[p].msg = InvalidStatusMsg
               /\ coopVars' = coopVars
            \/ /\ pc'[p] = "Update_auto"
               /\ input'[p].Status \in {"opened", "closed"}
               /\ status' = (IF input'[p].Status = "opened" THEN Opened ELSE Closed)
               /\ confVars' = confVars]_vars

\* Scenario D: the Update has returned InvalidStatus, here on a coop that a former
\* Update had set to manual mode.
C13_Witness ==
    /\ pc[0] = "idle" /\ err[0].msg = InvalidStatusMsg
    /\ status \in {Opened, Closed} /\ ~isAutomatic

\* C14: a successful Update replaces the configuration atomically, so that no
\* Check ever reads a mixed one.  Every configuration New or an Update sets has its
\* two conditions from one pair of CondPairs; a Check whose shouldBeOpened reads
\* a pair outside CondPairs reads the opening condition of one configuration with
\* the closing condition of another.
C14_NoMixedConfiguration ==
    [][\A p \in Checks :
         (pc[p] = "Check_Closed" /\ pc'[p] # pc[p])
         => <<openingCondition, closingCondition>> \in CondPairs]_vars

\* C15: no Check starts before notify() has delivered the startup notification to
\* every notifier.
C15_NotifiedBeforeFirstCheck ==
    [][(\E p \in Checks : pc[p] = "idle" /\ pc'[p] = "Check")
       => notified = Len(Notifiers)]_vars

\* C16: a Check whose transition fails, by a rejected transition or a failed door
\* call, only ends its own goroutine: the step touches no other goroutine and
\* hands no error to anyone; and whatever the Checks did, ticks go on starting
\* Check evaluations forever.
C16_SchedulerKeepsTicking ==
    /\ [][\A p \in Checks :
            (pc[p] \in {"open", "close", "open_settle", "close_settle"} /\ pc'[p] = "idle")
            => /\ \A q \in Procs \ {p} : pc'[q] = pc[q]
               /\ err' = err]_vars
    /\ []<>(\E p \in Checks : pc[p] = "Check")

\* A door call has failed (only that sets Unknown here) and a later tick has
\* started a Check.
C16_Witness ==
    /\ status = Unknown
    /\ \E p \in Checks : pc[p] = "Check" /\ \A q \in Procs \ {p} : pc[q] = "idle"

\* C17: the controller owns the door handed to New: whenever a transition has
\* invoked Open() or Close(), it has invoked it on that door, coop.door being
\* never unset.
C17_OwnsInjectedDoor ==
    \A p \in Procs : pc[p] \in {"open_wait", "close_wait"} => door = NewDoorArg

\* C18: while a door Open() has been issued and has not returned the status is
\* Opening, and while a door Close() has been issued and has not returned the
\* status is Closing, whatever Update, Check and the manual calls do meanwhile.
C18_InFlightVisible ==
    \A p \in Procs :
        /\ pc[p] = "open_wait" => status = Opening
        /\ pc[p] = "close_wait" => status = Closing

\* C19: with conditions that stay, a Check that starts at instant t once a former
\* Check at t has run to completion from Opened or Closed issues no door command
\* and leaves the status as the first Check left it.  This holds in automatic
\* mode with a door that succeeds (the first Check may have opened or closed the
\* door), and also when the door failed (the status is Unknown) or automatic mode
\* is off.
C19_NoOscillation ==
    /\ [](pc[2] \in {"idle", "Check", "Check_switch", "Check_Closed", "Check_Opened"})
    /\ [][pc'[2] # pc[2] => status' = status]_vars
    /\ [][pc[1] = "idle" => status' = status]_vars

\* The first Check has opened the door at 07:05 and the second Check, started
\* after it, stands at its decision in the case Opened.
C19_Witness ==
    /\ pc[1] = "idle" /\ pc[2] = "Check_Opened"
    /\ isAutomatic /\ status = Opened /\ shouldBeOpened(now, openingCondition, closingCondition)

\* now is inside today's opening window.
InWindow == openingCondition <= now /\ now < closingCondition

\* C20: automatic mode staying on, ticks firing, goroutines running and door calls
\* returning: from the status Closed with now inside the window the status
\* becomes Opened or Unknown (unless time leaves the window first); from the
\* status Opened with now >= closingTime it becomes Closed or Unknown; and the
\* status does not stay Opening or Closing forever.
C20_AutomationProgress ==
    /\ [](isAutomatic)
    /\ (status = Closed /\ InWindow) ~> (status \in {Opened, Unknown} \/ ~InWindow)
    /\ (status = Opened /\ now >= closingCondition) ~> (status \in {Closed, Unknown})
    /\ []<>(status \notin {Opening, Closing})

\* A Check found the coop Closed inside the window, the door's Open() has returned
\* no error, and open() is about to write Opened.
C20_Witness ==
    /\ InWindow /\ status = Opening /\ isAutomatic
    /\ \E p \in Checks : pc[p] = "open_settle" /\ doorRes[p] = ""

====
